---- MODULE Spec2Model ----
(***************************************************************************)
(* Job/row orchestration of the pitch-deck pipeline: the upload and single *)
(* routes create job and row hashes in Redis, Celery tasks drive each row  *)
(* through Research -> Content -> Deck, and the chord callback finalizes   *)
(* a batch job.                                                            *)
(***************************************************************************)
EXTENDS Integers, FiniteSets, Sequences, TLC

(* ------------------------------ bounds -------------------------------- *)
\* Jobs (uploads and single-client requests) submitted in one run.
MaxJobs == 2
\* Row tasks that the jobs of one run hold in total.
MaxTasks == 2
\* Kinds of provider fault that occur in one run.
MaxFaultKinds == 1
\* Last row of an uploaded sheet; row 1 is the header, rows 2.. hold data.
MaxExcelRow == 3
\* Celery worker processes consuming the queue (each runs one task at a time).
NumWorkers == 2
\* Longest company name, in characters.
MaxNameLen == 2
\* Executions of the Research stage in one run of the cache specification.
MaxCalls == 2
\* Largest total_rows of a stored job hash that is queried.
MaxTotalRows == 40
\* Largest failed counter of a stored job hash that is queried.
MaxFailedRows == 2
\* Calls of the status and download routes in one run.
MaxQueries == 1

(* ------------------------- program constants -------------------------- *)
\* @celery_app.task(bind=True, max_retries=2, ...)
max_retries == 2
\* @retry(stop=stop_after_attempt(2), ...) on _query_perplexity and create_presentation
stop_after_attempt == 2
\* settings.max_rows_per_upload
max_rows_per_upload == 100
\* RESEARCH_CACHE_TTL_DAYS = 30
RESEARCH_CACHE_TTL_DAYS == 30
\* _poll_generation(..., max_wait_seconds: int = 300, poll_interval: int = 5)
max_wait_seconds == 300
poll_interval == 5

\* Lengths of a prospect list that upload_excel refuses: none, and one more
\* than the maximum.
RejectedLengths == {0, max_rows_per_upload + 1}

JobIds == 1..MaxJobs
\* Row 0 is the single-client row; rows 2..MaxExcelRow are sheet rows.
RowIdx == 0..MaxExcelRow
DataRows == 2..MaxExcelRow

(* --------------------------- RowStatus enum --------------------------- *)
QUEUED == "queued"
RESEARCHING == "researching"
GENERATING_CONTENT == "generating_content"
CREATING_DECK == "creating_deck"
COMPLETE == "complete"
FAILED == "failed"

RowStatus == {QUEUED, RESEARCHING, GENERATING_CONTENT, CREATING_DECK, COMPLETE, FAILED}

(* ----------------------------- Redis hashes --------------------------- *)
\* hgetall of a key that was never written: the empty hash.
NoJob == [exists |-> FALSE, status |-> "", total_rows |-> 0, completed |-> 0,
          failed |-> 0, output_file |-> "", is_single |-> FALSE]

NoRow == [exists |-> FALSE, status |-> "", deck_url |-> "", error |-> ""]

\* The value a task returns (RowResult.model_dump()), or none yet.
NoResult == [status |-> "", deck_url |-> "", error |-> ""]

RowResult(st, url, err) == [status |-> st, deck_url |-> url, error |-> err]

(* ------------------------- external stage adapters -------------------- *)
\* One attempt of an external call ends "ok" or raises.  "transient" is a 5xx
\* or rate-limit response and "permanent" a 4xx response, both raised by
\* response.raise_for_status(); "timeout" and "provider_failed" are raised by
\* _poll_generation.
HttpFailures == {"transient", "permanent"}
PollFailures == {"timeout", "provider_failed"}
AllFailures == HttpFailures \cup PollFailures

\* ExcName as it would be if _poll_generation raised RuntimeError when the
\* wait is over.
ExcNameTimeoutAsRuntime(o) ==
    CASE o = "transient" -> "HTTPStatusError"
      [] o = "permanent" -> "HTTPStatusError"
      [] o = "timeout" -> "RuntimeError"
      [] o = "provider_failed" -> "RuntimeError"

\* type(exc).__name__ of the exception an attempt raises.
ExcName(o) ==
    CASE o = "transient" -> "HTTPStatusError"
      [] o = "permanent" -> "HTTPStatusError"
      [] o = "timeout" -> "TimeoutError"
      [] o = "provider_failed" -> "RuntimeError"

\* A call under tenacity's @retry(stop=stop_after_attempt(n)): every exception
\* is retried until the n-th attempt, whose failure raises RetryError.  The
\* value is the set of possible attempt sequences.
RECURSIVE Retrying(_, _)
Retrying(n, fails) ==
    IF n <= 1 THEN {<<"ok">>} \cup {<<f>> : f \in fails}
    ELSE {<<"ok">>} \cup {<<f>> \o rest : f \in fails, rest \in Retrying(n - 1, fails)}

Succeeded(attempts) == attempts = <<>> \/ attempts[Len(attempts)] = "ok"

\* q calls made one after the other, each under Retrying(n, fails); the first
\* call that raises ends the sequence.
RECURSIVE Calls(_, _, _)
Calls(q, n, fails) ==
    IF q = 0 THEN {<<>>}
    ELSE LET first == Retrying(n, fails)
         IN {a \in first : ~Succeeded(a)}
            \cup {a \o rest : a \in {b \in first : Succeeded(b)},
                              rest \in Calls(q - 1, n, fails)}

\* research_company: a cache hit makes no call; otherwise 2 (QUICK) or 3 (DEEP)
\* queries through _query_perplexity, each retried by tenacity.
ResearchRuns(fails) ==
    {<<>>} \cup Calls(2, stop_after_attempt, fails \cap HttpFailures)
           \cup Calls(3, stop_after_attempt, fails \cap HttpFailures)

\* generate_pitch: map_services calls _call_openrouter when more than 3
\* services match, then one _call_openrouter for the slides; no retry wrapper.
SynthesizeRuns(fails) ==
    Calls(1, 1, fails \cap HttpFailures) \cup Calls(2, 1, fails \cap HttpFailures)

\* create_presentation: submit (and poll) under tenacity, 2 attempts.
ProduceRuns(fails) == Retrying(stop_after_attempt, fails)

\* error_msg = f"{type(exc).__name__}: {str(exc)}" of the exception that
\* reaches the task: tenacity wraps the last exception in RetryError; an
\* unwrapped call raises it as it is.
ErrorMsg(wrapped, attempts) ==
    LET name == ExcName(attempts[Len(attempts)])
    IN IF wrapped THEN "RetryError: RetryError[" \o name \o "]"
       ELSE name \o ": status"

\* The attempts of the call that raised: the failures at the end of the
\* sequence.
Tries(attempts) ==
    Cardinality({i \in 1..Len(attempts) :
                    \A k \in i..Len(attempts) : attempts[k] # "ok"})

\* What the task and the attempt history see of one stage call: whether it
\* returned, the message and the cause of the exception if not, the attempts
\* made of the call that raised, and the shape of the attempts made.
Outcome(wrapped, attempts) ==
    [ok |-> Succeeded(attempts),
     msg |-> IF Succeeded(attempts) THEN "" ELSE ErrorMsg(wrapped, attempts),
     exc |-> IF Succeeded(attempts) THEN "" ELSE attempts[Len(attempts)],
     tries |-> IF Succeeded(attempts) THEN 0 ELSE Tries(attempts),
     called |-> attempts # <<>>,
     allOk |-> \A i \in 1..Len(attempts) : attempts[i] = "ok",
     allPerm |-> \A i \in 1..Len(attempts) : attempts[i] = "permanent",
     perm |-> \E i \in 1..Len(attempts) : attempts[i] = "permanent",
     afterPerm |-> \E i \in 1..Len(attempts) :
                      attempts[i] = "permanent" /\ i < Len(attempts)]

\* The outcomes each stage call can have, per set of fault kinds.
ResearchOutcomes ==
    [fails \in SUBSET AllFailures |-> {Outcome(TRUE, a) : a \in ResearchRuns(fails)}]
SynthesizeOutcomes ==
    [fails \in SUBSET AllFailures |-> {Outcome(FALSE, a) : a \in SynthesizeRuns(fails)}]
ProduceOutcomes ==
    [fails \in SUBSET AllFailures |-> {Outcome(TRUE, a) : a \in ProduceRuns(fails)}]

\* _parse_gamma_response: the url of the response, else one built from the
\* id, else empty.
ParseGammaUrl(data) ==
    IF data.url # "" THEN data.url
    ELSE IF data.id # "" THEN "https://gamma.app/docs/" \o data.id
    ELSE ""

GammaResponses == [url : {"", "https://gamma.app/docs/g1"}, id : {"", "g1"}]

(* ------------------------ adapter attempt history --------------------- *)
\* The history of a row's adapter attempts after one more stage call: hist is
\* "allok" while every attempt succeeded and "resperm" while every attempt
\* was a Research attempt that failed Permanently; permRetried says that an
\* attempt was made after a Permanent failure of the same row.  raised,
\* stage and tries describe the latest stage call of the row that raised: its
\* cause, its stage and the attempts made of the failing call.
Record(e, st, out) ==
    IF ~out.called THEN e
    ELSE [e EXCEPT
            !.raised = IF out.ok THEN @ ELSE out.exc,
            !.stage = IF out.ok THEN @ ELSE st,
            !.tries = IF out.ok THEN @ ELSE out.tries,
            !.hist = IF out.allOk /\ e.hist \in {"none", "allok"} THEN "allok"
                     ELSE IF st = "research" /\ out.allPerm
                             /\ e.hist \in {"none", "resperm"} THEN "resperm"
                     ELSE "mixed",
            !.permSeen = e.permSeen \/ out.perm,
            !.permRetried = e.permRetried \/ e.permSeen \/ out.afterPerm]

VARIABLES
    job,        \* job[j]: the Redis hash job:{j}
    row,        \* row[j][r]: the Redis hash job:{j}:row:{r}
    upl,        \* upl[j]: position of the request handler that created job j
    prospects,  \* prospects[j]: row indexes parse_excel returned (or {0})
    task,       \* task[j][r]: the row's Celery task: pc, retries, return value
    chordCount, \* chordCount[j]: header tasks of the chord that have returned
    fin,        \* fin[j]: the chord callback finalize_job: state and calls
    env,        \* env[j][r]: history of the adapter attempts made for the row
    faults,     \* the kinds of failure the external providers show in this run
    budget,     \* row tasks that may still be submitted in this run
    async_session, \* app.database.async_session is set (init_db ran with a database)
    cache,      \* cache[k]: the research_cache row whose normalized name is k
    now,        \* the clock, in hours
    call,       \* the latest execution of the Research stage and what it did
    latest,     \* latest[k]: the research last computed for key k, and whether it
                \* was computed over a stale row with the database working
    resp,       \* the latest answer of a status or download route
    gamma       \* the deck creation of a row task: position in
                \* create_presentation, attempts, polls and what the task stored

pipeVars == <<job, row, upl, prospects, task, chordCount, fin, env, faults, budget>>

cacheVars == <<async_session, cache, now, call, latest>>

vars == <<job, row, upl, prospects, task, chordCount, fin, env, faults, budget,
          async_session, cache, now, call, latest, resp, gamma>>

NoTask == [pc |-> "none", retries |-> 0, ret |-> NoResult]

(* --------------------------- research cache --------------------------- *)
\* Company names as they arrive: strings over a lower-case letter, its
\* upper-case form and the blank, as sequences of characters.
Chars == {"a", "A", " "}

Names == UNION {[1..n -> Chars] : n \in 1..MaxNameLen}

\* str.lower() on one character.
LowerChar(c) == IF c = "A" THEN "a" ELSE c

\* str.lower()
Lower(name) == [i \in 1..Len(name) |-> LowerChar(name[i])]

\* str.strip(): the blanks at both ends are dropped.
Strip(name) ==
    LET inked == {i \in 1..Len(name) : name[i] # " "}
    IN IF inked = {} THEN <<>>
       ELSE LET first == CHOOSE i \in inked : \A k \in inked : i <= k
                last == CHOOSE i \in inked : \A k \in inked : k <= i
            IN SubSeq(name, first, last)

\* Normalize as it would be without the call of lower().
NormalizeKeepsCase(name) == Strip(name)

\* normalized = company_name.strip().lower()
Normalize(name) == Lower(Strip(name))

Keys == {Normalize(n) : n \in Names}

\* class ResearchDepth(str, Enum): a member, with its value.
QUICK == [enum |-> "ResearchDepth", value |-> "quick"]
DEEP == [enum |-> "ResearchDepth", value |-> "deep"]

\* determine_research_depth for a company that is not one of
\* WELL_KNOWN_COMPANIES: QUICK when the prospect has an industry and a
\* website, else DEEP.
determine_research_depth(hinted) == IF hinted THEN QUICK ELSE DEEP

\* The CompanyResearch built from the provider's answers to the queries made
\* at time t for the company as it was named; raw_research stands for the
\* answers, which change with the time of the queries.
CompanyResearch(name, depth, t) ==
    [company_name |-> name, depth_used |-> depth, raw_research |-> t]

\* No CompanyResearch (None).
NoResearch == [company_name |-> <<>>, depth_used |-> [enum |-> "", value |-> ""],
               raw_research |-> 0]

\* research.model_dump() as the JSON column stores it: the enum member is
\* stored as its value.
model_dump(research) ==
    [company_name |-> research.company_name,
     depth_used |-> research.depth_used.value,
     raw_research |-> research.raw_research]

\* CompanyResearch(**entry.research_data): the stored value of depth_used is
\* turned into the member of ResearchDepth that has it.
Validate(data) ==
    [company_name |-> data.company_name,
     depth_used |-> [enum |-> "ResearchDepth", value |-> data.depth_used],
     raw_research |-> data.raw_research]

\* The research_data of no row.
NoData == [company_name |-> <<>>, depth_used |-> "", raw_research |-> 0]

\* No row of research_cache has the key.
NoEntry == [present |-> FALSE, research_data |-> NoData, created_at |-> 0]

\* timedelta.days of a span of h hours (h >= 0): whole days, the rest dropped.
Days(h) == h \div 24

\* Expired as it would be without the comparison with the TTL.
ExpiredNever(entry, t) == FALSE

\* if age.days > RESEARCH_CACHE_TTL_DAYS: return None
Expired(entry, t) == Days(t - entry.created_at) > RESEARCH_CACHE_TTL_DAYS

\* _check_research_cache: None without a session factory, when the select
\* raises (dbOk false), when no row has the key or when the row is expired;
\* else the CompanyResearch rebuilt from the row's research_data.
_check_research_cache(session, c, name, t, dbOk) ==
    LET entry == c[Normalize(name)]
    IN IF ~session \/ ~dbOk THEN NoEntry
       ELSE IF ~entry.present THEN NoEntry
       ELSE IF Expired(entry, t) THEN NoEntry
       ELSE entry

\* _save_research_cache as it would be if an error of the insert were not caught.
_save_research_cache_propagates(session, c, name, research, t, dbOk) ==
    LET k == Normalize(name)
    IN IF ~session THEN [cache |-> c, written |-> FALSE, skipped |-> FALSE, raised |-> FALSE]
       ELSE IF ~dbOk \/ c[k].present
            THEN [cache |-> c, written |-> FALSE, skipped |-> TRUE, raised |-> TRUE]
       ELSE [cache |-> [c EXCEPT ![k] = [present |-> TRUE,
                                        research_data |-> model_dump(research),
                                        created_at |-> t]],
             written |-> TRUE, skipped |-> FALSE, raised |-> FALSE]

\* _save_research_cache: nothing without a session factory; else a row with
\* the normalized key is inserted, created_at set by the server.  The insert
\* fails when the database fails (dbOk false) or a row with the key exists
\* (company_name_normalized is unique); the exception is caught and dropped.
_save_research_cache(session, c, name, research, t, dbOk) ==
    LET k == Normalize(name)
    IN IF ~session THEN [cache |-> c, written |-> FALSE, skipped |-> FALSE, raised |-> FALSE]
       ELSE IF ~dbOk \/ c[k].present
            THEN [cache |-> c, written |-> FALSE, skipped |-> TRUE, raised |-> FALSE]
       ELSE [cache |-> [c EXCEPT ![k] = [present |-> TRUE,
                                        research_data |-> model_dump(research),
                                        created_at |-> t]],
             written |-> TRUE, skipped |-> FALSE, raised |-> FALSE]

\* No research was computed for the key yet.
NoLatest == [present |-> FALSE, research |-> NoResearch, at |-> 0, overStale |-> FALSE]

\* No execution of the Research stage yet.
NoCall == [n |-> 0, name |-> <<>>, at |-> 0, hit |-> FALSE, queried |-> FALSE,
           found |-> NoEntry, lookedUp |-> FALSE, returned |-> FALSE,
           data |-> NoResearch, written |-> FALSE, skipped |-> FALSE, status |-> "",
           before |-> NoLatest]

NoEnv == [hist |-> "none", permSeen |-> FALSE, permRetried |-> FALSE,
          incC |-> 0, incF |-> 0, raised |-> "", stage |-> "", tries |-> 0,
          runs |-> 0]

\* No route was called yet.
NoResp == [n |-> 0, op |-> "", job_id |-> 0, out |-> [code |-> 0]]

\* No deck creation was started yet.
NoGamma == [pc |-> "idle", attempt |-> 0, elapsed |-> 0, polls |-> 0,
            processing |-> 0, gamma_id |-> "", exc |-> "",
            status |-> "", deck_url |-> "", error |-> "",
            retries |-> 0, submits |-> 0]

\* The process as main.py starts it: init_db is not called, so no session
\* factory exists and nothing is cached.
Init ==
    /\ async_session = FALSE
    /\ cache = [k \in Keys |-> NoEntry]
    /\ now = 0
    /\ call = NoCall
    /\ latest = [k \in Keys |-> NoLatest]
    /\ resp = NoResp
    /\ gamma = NoGamma
    /\ job = [j \in JobIds |-> NoJob]
    /\ row = [j \in JobIds |-> [r \in RowIdx |-> NoRow]]
    /\ upl = [j \in JobIds |-> "none"]
    /\ prospects = [j \in JobIds |-> {}]
    /\ task = [j \in JobIds |-> [r \in RowIdx |-> NoTask]]
    /\ chordCount = [j \in JobIds |-> 0]
    /\ fin = [j \in JobIds |-> [state |-> "none", calls |-> 0]]
    /\ env = [j \in JobIds |-> [r \in RowIdx |-> NoEnv]]
    /\ faults \in {f \in SUBSET AllFailures : Cardinality(f) <= MaxFaultKinds}
    /\ budget = MaxTasks

(* ------------------------------ Redis --------------------------------- *)
\* redis_client.hset(f"job:{j}:row:{r}", mapping=...): only the given fields
\* are overwritten.
HsetRow(rows, j, r, fields) ==
    [rows EXCEPT ![j][r] =
        [f \in DOMAIN NoRow |->
            IF f = "exists" THEN TRUE
            ELSE IF f \in DOMAIN fields THEN fields[f] ELSE @[f]]]

HsetJob(jobs, j, fields) ==
    [jobs EXCEPT ![j] =
        [f \in DOMAIN NoJob |->
            IF f = "exists" THEN TRUE
            ELSE IF f \in DOMAIN fields THEN fields[f] ELSE @[f]]]

\* Hincrby as it would be if the counter were written from the caller's own
\* count (hset field "1") instead of being incremented on the server.
HincrbySetsOne(jobs, j, field) ==
    [jobs EXCEPT ![j] =
        [f \in DOMAIN NoJob |->
            IF f = "exists" THEN TRUE
            ELSE IF f = field THEN 1 ELSE @[f]]]

\* redis_client.hincrby(job_key, field, 1): atomic on the server.
Hincrby(jobs, j, field) ==
    [jobs EXCEPT ![j] =
        [f \in DOMAIN NoJob |->
            IF f = "exists" THEN TRUE
            ELSE IF f = field THEN @[f] + 1 ELSE @[f]]]

(* ------------------------- POST /upload, /single ---------------------- *)
\* str(uuid.uuid4())[:8]: an id no job of this run has.
FreshJobId(j) ==
    /\ upl[j] = "none"
    /\ \A k \in JobIds : k < j => upl[k] # "none"

\* upload_excel up to the job hash: parse_excel returned the rows of the sheet
\* with a company name, the list is neither empty nor too long, and the job
\* hash is written.  (A request that is rejected with 400 writes nothing.)
UploadCreateJob(j, parsed) ==
    /\ FreshJobId(j)
    /\ Cardinality(parsed) <= budget
    /\ parsed # {}
    /\ Cardinality(parsed) <= max_rows_per_upload
    /\ job' = HsetJob(job, j, [status |-> "processing",
                               total_rows |-> Cardinality(parsed),
                               completed |-> 0, failed |-> 0,
                               output_file |-> ""])
    /\ prospects' = [prospects EXCEPT ![j] = parsed]
    /\ upl' = [upl EXCEPT ![j] = "rows"]
    /\ budget' = budget - Cardinality(parsed)
    /\ UNCHANGED <<row, task, chordCount, fin, env, faults, cacheVars, resp, gamma>>

\* UploadReject as it would be if the job hash were written before the list
\* of prospects is validated.
UploadRejectAfterHset(j, n) ==
    /\ FreshJobId(j)
    /\ n > max_rows_per_upload \/ n = 0
    /\ job' = HsetJob(job, j, [status |-> "processing", total_rows |-> n,
                               completed |-> 0, failed |-> 0,
                               output_file |-> ""])
    /\ upl' = [upl EXCEPT ![j] = IF n > max_rows_per_upload
                                 THEN "rejected_too_many" ELSE "rejected_empty"]
    /\ UNCHANGED <<row, prospects, task, chordCount, fin, env, faults, budget, cacheVars, resp, gamma>>

\* upload_excel when parse_excel returned n prospects and n is over the
\* maximum or zero: the saved file is removed and HTTPException(400) is raised
\* before anything is written to Redis or queued.  The job id is used up.
UploadReject(j, n) ==
    /\ FreshJobId(j)
    /\ n > max_rows_per_upload \/ n = 0
    /\ upl' = [upl EXCEPT ![j] = IF n > max_rows_per_upload
                                 THEN "rejected_too_many" ELSE "rejected_empty"]
    /\ UNCHANGED <<job, row, prospects, task, chordCount, fin, env, faults, budget, cacheVars, resp, gamma>>

\* The rows whose hash the loop of upload_excel has still to write.
Unwritten(j) == {r \in prospects[j] : ~row[j][r].exists}

\* One turn of "for prospect in prospects": the next row hash is written.
UploadInitRow(j) ==
    /\ upl[j] = "rows"
    /\ Unwritten(j) # {}
    /\ LET r == CHOOSE x \in Unwritten(j) : \A y \in Unwritten(j) : x <= y
       IN row' = HsetRow(row, j, r, [status |-> QUEUED, deck_url |-> "",
                                     error |-> ""])
    /\ UNCHANGED <<job, upl, prospects, task, chordCount, fin, env, faults, budget, cacheVars, resp, gamma>>

\* UploadDispatch as it would be if the chord were published before the loop
\* over the prospects has written the row hashes.
UploadDispatchBeforeRows(j) ==
    /\ upl[j] = "rows"
    /\ task' = [task EXCEPT ![j] = [r \in RowIdx |->
                   IF r \in prospects[j] THEN [@[r] EXCEPT !.pc = "queued"]
                   ELSE @[r]]]
    /\ upl' = [upl EXCEPT ![j] = "done"]
    /\ UNCHANGED <<job, row, prospects, chordCount, fin, env, faults, budget, cacheVars, resp, gamma>>

\* chord(row_tasks)(callback): every process_prospect task is published.
UploadDispatch(j) ==
    /\ upl[j] = "rows"
    /\ Unwritten(j) = {}
    /\ task' = [task EXCEPT ![j] = [r \in RowIdx |->
                   IF r \in prospects[j] THEN [@[r] EXCEPT !.pc = "queued"]
                   ELSE @[r]]]
    /\ upl' = [upl EXCEPT ![j] = "done"]
    /\ UNCHANGED <<job, row, prospects, chordCount, fin, env, faults, budget, cacheVars, resp, gamma>>

\* create_single_prospect up to the job hash.
SingleCreateJob(j) ==
    /\ FreshJobId(j)
    /\ 1 <= budget
    /\ job' = HsetJob(job, j, [status |-> "processing", total_rows |-> 1,
                               completed |-> 0, failed |-> 0,
                               output_file |-> "", is_single |-> TRUE])
    /\ prospects' = [prospects EXCEPT ![j] = {0}]
    /\ upl' = [upl EXCEPT ![j] = "single"]
    /\ budget' = budget - 1
    /\ UNCHANGED <<row, task, chordCount, fin, env, faults, cacheVars, resp, gamma>>

\* create_single_prospect from the row hash on: row 0 is written and
\* process_single_prospect.apply is handed to the executor.
SingleDispatch(j) ==
    /\ upl[j] = "single"
    /\ row' = HsetRow(row, j, 0, [status |-> QUEUED, deck_url |-> "", error |-> ""])
    /\ task' = [task EXCEPT ![j][0].pc = "queued"]
    /\ upl' = [upl EXCEPT ![j] = "done"]
    /\ UNCHANGED <<job, prospects, chordCount, fin, env, faults, budget, cacheVars, resp, gamma>>

(* --------------------------- Celery tasks ----------------------------- *)
\* Jobs made by POST /single run process_single_prospect on row 0 in an
\* executor thread; jobs made by POST /upload run process_prospect per row on
\* the Celery workers.
IsSingle(j) == prospects[j] = {0}

Executing(j, r) ==
    task[j][r].pc \in {"research", "generate", "deck", "incr_completed",
                       "job_complete", "incr_failed", "job_failed"}

\* worker_concurrency=1: each worker process runs one task at a time.
BusyWorkers ==
    Cardinality({jr \in JobIds \X RowIdx :
                    ~IsSingle(jr[1]) /\ Executing(jr[1], jr[2])})

WorkerFree == BusyWorkers < NumWorkers

ChordSize(j) == Cardinality(prospects[j])

\* ChordPartReturn as it would be if the callback were published as soon as
\* one header task has returned.
ChordPartReturnFirst(j) ==
    /\ chordCount' = [chordCount EXCEPT ![j] = @ + 1]
    /\ fin' = IF chordCount[j] = 0
              THEN [fin EXCEPT ![j].state = "queued"]
              ELSE fin

\* A header task of the chord returned (state SUCCESS): the chord counter is
\* incremented and the callback is published when the last one returns.
ChordPartReturn(j) ==
    /\ chordCount' = [chordCount EXCEPT ![j] = @ + 1]
    /\ fin' = IF chordCount[j] + 1 = ChordSize(j)
              THEN [fin EXCEPT ![j].state = "queued"]
              ELSE fin

\* if self.request.retries < self.max_retries: raise self.retry(exc=exc)
ShouldRetry(t) == t.retries < max_retries

\* StartRow as it would be if the task went to the research adapter without
\* writing RESEARCHING first.
StartRowSkipsStatus(j, r) ==
    /\ task[j][r].pc = "queued"
    /\ IsSingle(j) \/ WorkerFree
    /\ task' = [task EXCEPT ![j][r].pc = "research"]
    /\ env' = [env EXCEPT ![j][r].runs = @ + 1]
    /\ UNCHANGED <<job, row, upl, prospects, chordCount, fin, faults, budget, cacheVars, resp, gamma>>

\* Entry of process_prospect / process_single_prospect (also after a retry):
\* _update_row_status(job_id, row_index, RowStatus.RESEARCHING).
StartRow(j, r) ==
    /\ task[j][r].pc = "queued"
    /\ IsSingle(j) \/ WorkerFree
    /\ row' = HsetRow(row, j, r, [status |-> RESEARCHING])
    /\ task' = [task EXCEPT ![j][r].pc = "research"]
    /\ env' = [env EXCEPT ![j][r].runs = @ + 1]
    /\ UNCHANGED <<job, upl, prospects, chordCount, fin, faults, budget, cacheVars, resp, gamma>>

\* CatchException as it would be if the handler marked every row of the job
\* FAILED, not only the row of the task.
CatchExceptionFailsJobRows(j, r, msg) ==
    /\ row' = [row EXCEPT ![j] = [q \in RowIdx |->
                  IF q \in prospects[j]
                  THEN [@[q] EXCEPT !.status = FAILED, !.error = msg]
                  ELSE @[q]]]
    /\ task' = [task EXCEPT ![j][r].pc = "incr_failed",
                            ![j][r].ret = RowResult(FAILED, "", msg)]

\* except Exception as exc: the first command of the handler,
\* _update_row_status(..., RowStatus.FAILED, error=error_msg), up to its hset.
CatchException(j, r, msg) ==
    /\ row' = HsetRow(row, j, r, [status |-> FAILED, error |-> msg])
    /\ task' = [task EXCEPT ![j][r].pc = "incr_failed",
                            ![j][r].ret = RowResult(FAILED, "", msg)]

\* _run_async(research_company(prospect)) returns or raises; on return the
\* row moves on to GENERATING_CONTENT.
Research(j, r) ==
    /\ task[j][r].pc = "research"
    /\ \E out \in ResearchOutcomes[faults] :
          /\ env' = [env EXCEPT ![j][r] = Record(@, "research", out)]
          /\ IF out.ok
             THEN /\ row' = HsetRow(row, j, r, [status |-> GENERATING_CONTENT])
                  /\ task' = [task EXCEPT ![j][r].pc = "generate"]
             ELSE CatchException(j, r, out.msg)
    /\ UNCHANGED <<job, upl, prospects, chordCount, fin, faults, budget, cacheVars, resp, gamma>>

\* _run_async(generate_pitch(prospect, research)) returns or raises; on return
\* the row moves on to CREATING_DECK.
Synthesize(j, r) ==
    /\ task[j][r].pc = "generate"
    /\ \E out \in SynthesizeOutcomes[faults] :
          /\ env' = [env EXCEPT ![j][r] = Record(@, "synthesize", out)]
          /\ IF out.ok
             THEN /\ row' = HsetRow(row, j, r, [status |-> CREATING_DECK])
                  /\ task' = [task EXCEPT ![j][r].pc = "deck"]
             ELSE CatchException(j, r, out.msg)
    /\ UNCHANGED <<job, upl, prospects, chordCount, fin, faults, budget, cacheVars, resp, gamma>>

\* _run_async(create_presentation(pitch_content)) returns a GammaResult or
\* raises; on return the row hash gets COMPLETE and the urls.
Produce(j, r) ==
    /\ task[j][r].pc = "deck"
    /\ \E out \in ProduceOutcomes[faults] : \E data \in GammaResponses :
          /\ env' = [env EXCEPT ![j][r] = Record(@, "produce", out)]
          /\ IF out.ok
             THEN LET url == ParseGammaUrl(data)
                  IN /\ row' = HsetRow(row, j, r, [status |-> COMPLETE,
                                                   deck_url |-> url])
                     /\ task' = [task EXCEPT
                                   ![j][r].pc = "incr_completed",
                                   ![j][r].ret = RowResult(COMPLETE, url, "")]
             ELSE CatchException(j, r, out.msg)
    /\ UNCHANGED <<job, upl, prospects, chordCount, fin, faults, budget, cacheVars, resp, gamma>>

\* _update_row_status(COMPLETE), second half: hincrby(job_key, "completed", 1).
\* process_prospect then returns its RowResult.
IncrCompleted(j, r) ==
    /\ task[j][r].pc = "incr_completed"
    /\ job' = Hincrby(job, j, "completed")
    /\ env' = [env EXCEPT ![j][r].incC = @ + 1]
    /\ IF IsSingle(j)
       THEN /\ task' = [task EXCEPT ![j][r].pc = "job_complete"]
            /\ UNCHANGED <<chordCount, fin>>
       ELSE /\ task' = [task EXCEPT ![j][r].pc = "returned"]
            /\ ChordPartReturn(j)
    /\ UNCHANGED <<row, upl, prospects, faults, budget, cacheVars, resp, gamma>>

\* process_single_prospect: hset(job_key, {"status": "complete",
\* "completed": "1"}), then return.
SingleJobComplete(j) ==
    /\ task[j][0].pc = "job_complete"
    /\ job' = HsetJob(job, j, [status |-> "complete", completed |-> 1])
    /\ task' = [task EXCEPT ![j][0].pc = "returned"]
    /\ UNCHANGED <<row, upl, prospects, chordCount, fin, env, faults, budget, cacheVars, resp, gamma>>

\* RetryOrReturn as it would be if a task that is re-queued by self.retry also
\* counted as a returned part of the chord.
RetryOrReturnSignalsRetry(j, r) ==
    IF ShouldRetry(task[j][r])
    THEN /\ task' = [task EXCEPT ![j][r].pc = "queued",
                                 ![j][r].retries = @ + 1]
         /\ IF IsSingle(j) THEN UNCHANGED <<chordCount, fin>>
            ELSE ChordPartReturn(j)
    ELSE /\ task' = [task EXCEPT ![j][r].pc = "returned"]
         /\ IF IsSingle(j) THEN UNCHANGED <<chordCount, fin>>
            ELSE ChordPartReturn(j)

\* RetryOrReturn as it would be if a row task whose retries are used up ended
\* in state FAILURE, which a chord does not count as a returned part.
RetryOrReturnAbortsChord(j, r) ==
    IF ShouldRetry(task[j][r])
    THEN /\ task' = [task EXCEPT ![j][r].pc = "queued",
                                 ![j][r].retries = @ + 1]
         /\ UNCHANGED <<chordCount, fin>>
    ELSE /\ task' = [task EXCEPT ![j][r].pc = "returned"]
         /\ UNCHANGED <<chordCount, fin>>

\* RetryOrReturn as it would be if the message of self.retry were never
\* delivered again: the task neither runs another time nor returns.
RetryOrReturnLosesRetry(j, r) ==
    IF ShouldRetry(task[j][r])
    THEN /\ task' = [task EXCEPT ![j][r].pc = "lost",
                                 ![j][r].retries = @ + 1]
         /\ UNCHANGED <<chordCount, fin>>
    ELSE /\ task' = [task EXCEPT ![j][r].pc = "returned"]
         /\ IF IsSingle(j) THEN UNCHANGED <<chordCount, fin>>
            ELSE ChordPartReturn(j)

\* The end of the except branch: self.retry re-queues the task while retries
\* are left, else the task returns its FAILED RowResult.
RetryOrReturn(j, r) ==
    IF ShouldRetry(task[j][r])
    THEN /\ task' = [task EXCEPT ![j][r].pc = "queued",
                                 ![j][r].retries = @ + 1]
         /\ UNCHANGED <<chordCount, fin>>
    ELSE /\ task' = [task EXCEPT ![j][r].pc = "returned"]
         /\ IF IsSingle(j) THEN UNCHANGED <<chordCount, fin>>
            ELSE ChordPartReturn(j)

\* _update_row_status(FAILED), second half: hincrby(job_key, "failed", 1).
\* process_prospect then retries or returns.
IncrFailed(j, r) ==
    /\ task[j][r].pc = "incr_failed"
    /\ job' = Hincrby(job, j, "failed")
    /\ env' = [env EXCEPT ![j][r].incF = @ + 1]
    /\ IF IsSingle(j)
       THEN /\ task' = [task EXCEPT ![j][r].pc = "job_failed"]
            /\ UNCHANGED <<chordCount, fin>>
       ELSE RetryOrReturn(j, r)
    /\ UNCHANGED <<row, upl, prospects, faults, budget, cacheVars, resp, gamma>>

\* process_single_prospect: hset(job_key, {"status": "failed", "failed": "1"}),
\* then retry or return.
SingleJobFailed(j) ==
    /\ task[j][0].pc = "job_failed"
    /\ job' = HsetJob(job, j, [status |-> "failed", failed |-> 1])
    /\ RetryOrReturn(j, 0)
    /\ UNCHANGED <<row, upl, prospects, env, faults, budget, cacheVars, resp, gamma>>

\* FinalizeJob as it would be if it set the job to failed when a row failed.
FinalizeJobFailsOnRowFailure(j, written) ==
    /\ fin[j].state = "queued"
    /\ WorkerFree
    /\ IF written
       THEN /\ job' = HsetJob(job, j,
                        [status |-> IF \E r \in prospects[j] :
                                          task[j][r].ret.status = FAILED
                                    THEN "failed" ELSE "complete",
                         output_file |-> "output.xlsx"])
            /\ fin' = [fin EXCEPT ![j] = [state |-> "done", calls |-> @.calls + 1]]
       ELSE /\ job' = job
            /\ fin' = [fin EXCEPT ![j] = [state |-> "raised", calls |-> @.calls + 1]]
    /\ UNCHANGED <<row, upl, prospects, task, chordCount, env, faults, budget, cacheVars, resp, gamma>>

\* FinalizeJob as it would be if the name of the output file were stored
\* before write_results is called.
FinalizeJobStoresNameFirst(j, written) ==
    /\ fin[j].state = "queued"
    /\ WorkerFree
    /\ IF written
       THEN /\ job' = HsetJob(job, j, [status |-> "complete",
                                       output_file |-> "output.xlsx"])
            /\ fin' = [fin EXCEPT ![j] = [state |-> "done", calls |-> @.calls + 1]]
       ELSE /\ job' = HsetJob(job, j, [output_file |-> "output.xlsx"])
            /\ fin' = [fin EXCEPT ![j] = [state |-> "raised", calls |-> @.calls + 1]]
    /\ UNCHANGED <<row, upl, prospects, task, chordCount, env, faults, budget, cacheVars, resp, gamma>>

\* finalize_job, the chord callback: write_results writes the output workbook
\* or raises; only after it returned is the job hash set to complete.
FinalizeJob(j, written) ==
    /\ fin[j].state = "queued"
    /\ WorkerFree
    /\ IF written
       THEN /\ job' = HsetJob(job, j, [status |-> "complete",
                                       output_file |-> "output.xlsx"])
            /\ fin' = [fin EXCEPT ![j] = [state |-> "done", calls |-> @.calls + 1]]
       ELSE /\ job' = job
            /\ fin' = [fin EXCEPT ![j] = [state |-> "raised", calls |-> @.calls + 1]]
    /\ UNCHANGED <<row, upl, prospects, task, chordCount, env, faults, budget, cacheVars, resp, gamma>>

(* ---------------------------- specification --------------------------- *)
Next ==
    \E j \in JobIds :
        \/ \E parsed \in SUBSET DataRows : UploadCreateJob(j, parsed)
        \/ \E n \in RejectedLengths : UploadReject(j, n)
        \/ UploadInitRow(j)
        \/ UploadDispatch(j)
        \/ SingleCreateJob(j)
        \/ SingleDispatch(j)
        \/ \E r \in RowIdx : StartRow(j, r)
        \/ \E r \in RowIdx : Research(j, r)
        \/ \E r \in RowIdx : Synthesize(j, r)
        \/ \E r \in RowIdx : Produce(j, r)
        \/ \E r \in RowIdx : IncrCompleted(j, r)
        \/ \E r \in RowIdx : IncrFailed(j, r)
        \/ SingleJobComplete(j)
        \/ SingleJobFailed(j)
        \/ \E written \in BOOLEAN : FinalizeJob(j, written)

Spec == Init /\ [][Next]_vars

\* The steps made by the request handlers once a request is in and by the
\* workers: a handler runs to its end, and a worker takes the next queued task.
Work(j) ==
    \/ UploadInitRow(j)
    \/ UploadDispatch(j)
    \/ SingleDispatch(j)
    \/ \E r \in RowIdx : StartRow(j, r)
    \/ \E r \in RowIdx : Research(j, r)
    \/ \E r \in RowIdx : Synthesize(j, r)
    \/ \E r \in RowIdx : Produce(j, r)
    \/ \E r \in RowIdx : IncrCompleted(j, r)
    \/ \E r \in RowIdx : IncrFailed(j, r)
    \/ SingleJobComplete(j)
    \/ SingleJobFailed(j)
    \/ \E written \in BOOLEAN : FinalizeJob(j, written)

\* Every adapter call returns or raises and the workers keep consuming the
\* queue; no request is ever bound to arrive.
FairSpec == Spec /\ \A j \in JobIds : WF_vars(Work(j))

(* ------------------- the Research stage with a database --------------- *)
\* Whether the queries of research_company to the provider can all return,
\* per set of fault kinds: 2 or 3 queries, each under tenacity.
ProviderOutcomes ==
    [fails \in SUBSET AllFailures |->
        {Succeeded(a) : a \in ResearchRuns(fails) \ {<<>>}}]

\* research_company at time t: the cached research when the lookup finds a
\* fresh row and then no query is made; else the queries are made, and when
\* they all return the research is built, handed to _save_research_cache and
\* returned.  An exception of a query leaves research_company.
research_company(session, c, name, hinted, t, lookupOk, queriesOk, saveOk) ==
    LET cached == _check_research_cache(session, c, name, t, lookupOk)
        research == CompanyResearch(name, determine_research_depth(hinted), t)
        sv == _save_research_cache(session, c, name, research, t, saveOk)
    IN IF cached.present
       THEN [hit |-> TRUE, queried |-> FALSE, returned |-> TRUE,
             data |-> Validate(cached.research_data), cache |-> c,
             written |-> FALSE, skipped |-> FALSE]
       ELSE IF ~queriesOk
       THEN [hit |-> FALSE, queried |-> TRUE, returned |-> FALSE,
             data |-> NoResearch, cache |-> c, written |-> FALSE, skipped |-> FALSE]
       ELSE [hit |-> FALSE, queried |-> TRUE, returned |-> ~sv.raised,
             data |-> IF sv.raised THEN NoResearch ELSE research, cache |-> sv.cache,
             written |-> sv.written, skipped |-> sv.skipped]

\* Hours that pass between one reading of the clock and the next.
Elapsed ==
    {1, (RESEARCH_CACHE_TTL_DAYS - 1) * 24, RESEARCH_CACHE_TTL_DAYS * 24,
     (RESEARCH_CACHE_TTL_DAYS + 1) * 24}

\* The Research stage of a row task, d hours after the one before:
\* _update_row_status(RESEARCHING), research_company(prospect), then
\* _update_row_status(GENERATING_CONTENT) when it returned and
\* _update_row_status(FAILED) in the except branch when it raised.
ResearchStage(name, hinted, d, lookupOk, queriesOk, saveOk) ==
    /\ call.n < MaxCalls
    /\ LET t == now + d
           res == research_company(async_session, cache, name, hinted, t, lookupOk,
                                   queriesOk, saveOk)
       IN /\ now' = t
          /\ cache' = res.cache
          /\ latest' = IF res.queried /\ res.returned
                       THEN [latest EXCEPT ![Normalize(name)] =
                               [present |-> TRUE, research |-> res.data, at |-> t,
                                overStale |-> /\ async_session /\ lookupOk /\ saveOk
                                              /\ cache[Normalize(name)].present]]
                       ELSE latest
          /\ call' = [n |-> call.n + 1, name |-> name, at |-> t,
                      hit |-> res.hit, queried |-> res.queried,
                      found |-> cache[Normalize(name)],
                      lookedUp |-> async_session /\ lookupOk,
                      returned |-> res.returned, data |-> res.data,
                      written |-> res.written, skipped |-> res.skipped,
                      status |-> IF res.returned THEN GENERATING_CONTENT ELSE FAILED,
                      before |-> latest[Normalize(name)]]
    /\ UNCHANGED <<async_session, pipeVars, resp, gamma>>

\* The research of the company <<"a">> that an earlier process computed and
\* stored at hour 0.
StoredResearch == CompanyResearch(<<"a">>, DEEP, 0)

\* A process whose init_db may have run with a database configured; the
\* research_cache table is empty or holds the row an earlier process stored.
CacheInit ==
    /\ async_session \in BOOLEAN
    /\ \E stored \in BOOLEAN :
          IF stored
          THEN /\ cache = [k \in Keys |->
                            IF k = Normalize(<<"a">>)
                            THEN [present |-> TRUE,
                                  research_data |-> model_dump(StoredResearch),
                                  created_at |-> 0]
                            ELSE NoEntry]
               /\ latest = [k \in Keys |->
                             IF k = Normalize(<<"a">>)
                             THEN [present |-> TRUE, research |-> StoredResearch,
                                   at |-> 0, overStale |-> FALSE]
                             ELSE NoLatest]
          ELSE /\ cache = [k \in Keys |-> NoEntry]
               /\ latest = [k \in Keys |-> NoLatest]
    /\ now = 0
    /\ call = NoCall
    /\ resp = NoResp
    /\ gamma = NoGamma
    /\ job = [j \in JobIds |-> NoJob]
    /\ row = [j \in JobIds |-> [r \in RowIdx |-> NoRow]]
    /\ upl = [j \in JobIds |-> "none"]
    /\ prospects = [j \in JobIds |-> {}]
    /\ task = [j \in JobIds |-> [r \in RowIdx |-> NoTask]]
    /\ chordCount = [j \in JobIds |-> 0]
    /\ fin = [j \in JobIds |-> [state |-> "none", calls |-> 0]]
    /\ env = [j \in JobIds |-> [r \in RowIdx |-> NoEnv]]
    /\ faults \in {f \in SUBSET HttpFailures : Cardinality(f) <= MaxFaultKinds}
    /\ budget = MaxTasks

CacheNext ==
    \E queriesOk \in ProviderOutcomes[faults] :
        \E name \in Names, hinted \in BOOLEAN, d \in Elapsed,
           lookupOk \in BOOLEAN, saveOk \in BOOLEAN :
            ResearchStage(name, hinted, d, lookupOk, queriesOk, saveOk)

\* Successive executions of the Research stage against one research_cache
\* table.
CacheSpec == CacheInit /\ [][CacheNext]_vars

(* --------------------------- status queries --------------------------- *)
\* Python floats are IEEE 754 binary64 numbers: 53 significant bits.
Mantissa == 53

\* A non-negative number is written as a sequence of bits, the most
\* significant first, with IntBits bits before the binary point; FracBits
\* bits after it hold every significant bit of a quotient of two counters.
IntBits == 8

FracBits == 7 + Mantissa + 2

\* The w bits of the integer v.
IntToBits(v, w) == [i \in 1..w |-> (v \div 2^(w - i)) % 2]

RECURSIVE BitsToInt(_, _)
\* The integer written by the first w bits.
BitsToInt(bits, w) == IF w = 0 THEN 0 ELSE 2 * BitsToInt(bits, w - 1) + bits[w]

\* The long arithmetic below works on ChunkBits bits at a time.
ChunkBits == 16

RECURSIVE Remainder(_, _, _)
\* The remainder that the long division of n by d leaves after c chunks of
\* bits behind the binary point.
Remainder(n, d, c) ==
    IF c = 0 THEN n % d ELSE (2^ChunkBits * Remainder(n, d, c - 1)) % d

\* The binary expansion of n / d by long division, and whether the division
\* left a remainder after the last bit.
Quotient(n, d) ==
    [bits |-> IntToBits(n \div d, IntBits)
                 \o [i \in 1..FracBits |->
                        LET c == (i - 1) \div ChunkBits
                            o == (i - 1) % ChunkBits
                        IN (((2^ChunkBits * Remainder(n, d, c)) \div d)
                               \div 2^(ChunkBits - 1 - o)) % 2],
     sticky |-> (2^(FracBits % ChunkBits)
                    * Remainder(n, d, FracBits \div ChunkBits)) % d # 0]

\* One unit added at position pos.
Inc(bits, pos) ==
    LET z == CHOOSE i \in 1..pos : bits[i] = 0 /\ \A k \in (i + 1)..pos : bits[k] = 1
    IN [i \in 1..Len(bits) |-> IF i = z THEN 1
                               ELSE IF i > z /\ i <= pos THEN 0 ELSE bits[i]]

\* The result of a float operation: the exact value rounded to Mantissa
\* significant bits, to the nearest, a tie to the even one.
RoundSig(x) ==
    LET bits == x.bits
        ones == {i \in 1..Len(bits) : bits[i] = 1}
    IN IF ones = {} THEN bits
       ELSE LET lead == CHOOSE i \in ones : \A k \in ones : i <= k
                last == lead + Mantissa - 1
            IN IF last >= Len(bits) THEN bits
               ELSE LET rest == x.sticky \/ \E i \in (last + 2)..Len(bits) : bits[i] = 1
                        up == bits[last + 1] = 1 /\ (rest \/ bits[last] = 1)
                        trunc == [i \in 1..Len(bits) |->
                                    IF i <= last THEN bits[i] ELSE 0]
                    IN IF up THEN Inc(trunc, last) ELSE trunc

RECURSIVE ChunkValue(_, _, _)
\* The integer written by the bits at positions lo..hi.
ChunkValue(bits, lo, hi) ==
    IF hi < lo THEN 0 ELSE 2 * ChunkValue(bits, lo, hi - 1) + bits[hi]

\* The integer written by chunk c of the bits, chunks counted from the least
\* significant end.
Chunk(bits, c) ==
    LET hi == Len(bits) - ChunkBits * c
        lo == IF hi - ChunkBits + 1 < 1 THEN 1 ELSE hi - ChunkBits + 1
    IN ChunkValue(bits, lo, hi)

RECURSIVE Carry100(_, _)
\* The carry of the product with 100 into chunk c.
Carry100(bits, c) ==
    IF c = 0 THEN 0
    ELSE (100 * Chunk(bits, c - 1) + Carry100(bits, c - 1)) \div 2^ChunkBits

\* The exact product with 100: 7 more bits before the binary point.
Times100(bits) ==
    LET wide == IntToBits(0, 7) \o bits
        n == Len(wide)
    IN <<>> \o [i \in 1..n |->
                   LET c == (n - i) \div ChunkBits
                       o == (n - i) % ChunkBits
                   IN (((100 * Chunk(wide, c) + Carry100(wide, c))
                           % 2^ChunkBits) \div 2^o) % 2]

\* round(x) of a float with w bits before the binary point: the nearest
\* integer, a tie to the even one.
ToNearestInt(bits, w) ==
    LET int == BitsToInt(bits, w)
        rest == \E i \in (w + 2)..Len(bits) : bits[i] = 1
    IN IF bits[w + 1] = 1 /\ (rest \/ int % 2 = 1) THEN int + 1 ELSE int

\* round(n / d * 100) for d > 0: the float quotient, its float product with
\* 100, and round() of that.
RoundPct(n, d) ==
    ToNearestInt(RoundSig([bits |-> Times100(RoundSig(Quotient(n, d))),
                           sticky |-> FALSE]), IntBits + 7)

\* GET /status/{job_id}: 404 when the job hash is empty; else the job fields
\* and an entry for each existing row hash among rows 2 .. total_rows + 1.
get_job_status(jobs, rows, j) ==
    IF ~jobs[j].exists THEN [code |-> 404]
    ELSE [code |-> 200,
          status |-> jobs[j].status,
          total_rows |-> jobs[j].total_rows,
          completed |-> jobs[j].completed,
          failed |-> jobs[j].failed,
          progress_percent |->
              IF jobs[j].total_rows > 0
              THEN RoundPct(jobs[j].completed + jobs[j].failed, jobs[j].total_rows)
              ELSE 0,
          output_file |-> jobs[j].output_file,
          rows |-> {[row_index |-> r, status |-> rows[j][r].status,
                     deck_url |-> rows[j][r].deck_url, error |-> rows[j][r].error] :
                       r \in {x \in 2..(jobs[j].total_rows + 1) :
                                 x \in RowIdx /\ rows[j][x].exists}}]

\* GET /download/{job_id}: 404 when the job hash is empty, 400 while the job
\* has no output_file or the file is not on the disk, else the file.
download_output(jobs, j, onDisk) ==
    IF ~jobs[j].exists THEN [code |-> 404, file |-> ""]
    ELSE IF jobs[j].output_file = "" \/ ~onDisk THEN [code |-> 400, file |-> ""]
    ELSE [code |-> 200, file |-> jobs[j].output_file]

\* _STAGE_PROGRESS
StageProgress(st) ==
    CASE st = QUEUED -> 0
      [] st = RESEARCHING -> 25
      [] st = GENERATING_CONTENT -> 50
      [] st = CREATING_DECK -> 75
      [] st = COMPLETE -> 100
      [] st = FAILED -> 100
      [] OTHER -> 0

\* GET /single/status/{job_id}: the job hash and the hash of row 0; a field
\* the row hash lacks reads as its default.
get_single_status(jobs, rows, j) ==
    IF ~jobs[j].exists THEN [code |-> 404]
    ELSE LET stage == IF rows[j][0].exists THEN rows[j][0].status ELSE QUEUED
         IN [code |-> 200,
             status |-> jobs[j].status,
             completed |-> jobs[j].completed,
             failed |-> jobs[j].failed,
             progress_percent |-> StageProgress(stage),
             current_stage |-> stage,
             deck_url |-> rows[j][0].deck_url,
             error |-> rows[j][0].error]

(* ------------------- GET /status, /single/status, /download ----------- *)
\* GetJobStatus as it would be if the route stored a default hash for a job
\* it does not find.
GetJobStatusStoresDefault(j) ==
    /\ resp.n < MaxQueries
    /\ resp' = [n |-> resp.n + 1, op |-> "status", job_id |-> j,
                out |-> get_job_status(job, row, j)]
    /\ job' = IF job[j].exists THEN job ELSE HsetJob(job, j, [status |-> "unknown"])
    /\ UNCHANGED <<row, upl, prospects, task, chordCount, fin, env, faults, budget,
                   cacheVars, gamma>>

\* A call of GET /status/{job_id}: only hgetall is sent to Redis.
GetJobStatus(j) ==
    /\ resp.n < MaxQueries
    /\ resp' = [n |-> resp.n + 1, op |-> "status", job_id |-> j,
                out |-> get_job_status(job, row, j)]
    /\ UNCHANGED <<pipeVars, cacheVars, gamma>>

\* A call of GET /single/status/{job_id}.
GetSingleStatus(j) ==
    /\ resp.n < MaxQueries
    /\ resp' = [n |-> resp.n + 1, op |-> "single_status", job_id |-> j,
                out |-> get_single_status(job, row, j)]
    /\ UNCHANGED <<pipeVars, cacheVars, gamma>>

\* A call of GET /download/{job_id}; the file named by output_file is on the
\* disk or was removed.
DownloadOutput(j, onDisk) ==
    /\ resp.n < MaxQueries
    /\ resp' = [n |-> resp.n + 1, op |-> "download", job_id |-> j,
                out |-> download_output(job, j, onDisk)]
    /\ UNCHANGED <<pipeVars, cacheVars, gamma>>

\* The job hashes a query can find: counters as the row tasks have left them
\* (a row that is retried is counted more than once), output_file set once
\* the job is complete.  A hash without total_rows reads as total_rows = 0.
StoredJobs ==
    {[exists |-> TRUE, status |-> st, total_rows |-> t, completed |-> c,
      failed |-> f, output_file |-> IF st = "complete" THEN "output.xlsx" ELSE "",
      is_single |-> FALSE] :
        st \in {"processing", "complete"}, t \in 0..MaxTotalRows,
        c \in 0..MaxTotalRows, f \in 0..MaxFailedRows} \ {NoJob}

\* Redis holds one job of an earlier upload, with its row hashes, and nothing
\* under the other job id; no request is being handled.
QueryInit ==
    /\ \E stored \in StoredJobs :
          /\ stored.completed <= stored.total_rows
          /\ job = [j \in JobIds |-> IF j = 1 THEN stored ELSE NoJob]
          /\ row = [j \in JobIds |-> [r \in RowIdx |->
                       IF j = 1 /\ r \in 2..(stored.total_rows + 1)
                       THEN [exists |-> TRUE, status |-> COMPLETE,
                             deck_url |-> "https://gamma.app/docs/g1", error |-> ""]
                       ELSE NoRow]]
    /\ upl = [j \in JobIds |-> "none"]
    /\ prospects = [j \in JobIds |-> {}]
    /\ task = [j \in JobIds |-> [r \in RowIdx |-> NoTask]]
    /\ chordCount = [j \in JobIds |-> 0]
    /\ fin = [j \in JobIds |-> [state |-> "none", calls |-> 0]]
    /\ env = [j \in JobIds |-> [r \in RowIdx |-> NoEnv]]
    /\ faults = {}
    /\ budget = 0
    /\ async_session = FALSE
    /\ cache = [k \in Keys |-> NoEntry]
    /\ now = 0
    /\ call = NoCall
    /\ latest = [k \in Keys |-> NoLatest]
    /\ resp = NoResp
    /\ gamma = NoGamma

QueryNext ==
    \E j \in JobIds :
        \/ GetJobStatus(j)
        \/ GetSingleStatus(j)
        \/ \E onDisk \in BOOLEAN : DownloadOutput(j, onDisk)

\* Calls of the read routes against a store that earlier requests and tasks
\* have filled.
QuerySpec == QueryInit /\ [][QueryNext]_vars

(* ------------------- job ids against a filled store ------------------- *)
\* What a finished POST /single job leaves in Redis: the job hash and row 0,
\* complete with its url or failed with its message.
StoredSingleJobs ==
    {[job |-> [exists |-> TRUE, status |-> "complete", total_rows |-> 1,
               completed |-> 1, failed |-> 0, output_file |-> "",
               is_single |-> TRUE],
      row |-> [exists |-> TRUE, status |-> COMPLETE,
               deck_url |-> "https://gamma.app/docs/g1", error |-> ""]],
     [job |-> [exists |-> TRUE, status |-> "failed", total_rows |-> 1,
               completed |-> 0, failed |-> 1, output_file |-> "",
               is_single |-> TRUE],
      row |-> [exists |-> TRUE, status |-> FAILED, deck_url |-> "",
               error |-> ErrorMsg(FALSE, <<"transient">>)]]}

\* Redis holds the records of one earlier /single job under some id; the
\* process handles no request yet.  str(uuid.uuid4())[:8] is drawn without a
\* look at Redis, so the id of the earlier job is among the ids a new request
\* can get.
IdInit ==
    /\ \E k \in JobIds : \E stored \in StoredSingleJobs :
          /\ job = [j \in JobIds |-> IF j = k THEN stored.job ELSE NoJob]
          /\ row = [j \in JobIds |-> [r \in RowIdx |->
                       IF j = k /\ r = 0 THEN stored.row ELSE NoRow]]
    /\ upl = [j \in JobIds |-> "none"]
    /\ prospects = [j \in JobIds |-> {}]
    /\ task = [j \in JobIds |-> [r \in RowIdx |-> NoTask]]
    /\ chordCount = [j \in JobIds |-> 0]
    /\ fin = [j \in JobIds |-> [state |-> "none", calls |-> 0]]
    /\ env = [j \in JobIds |-> [r \in RowIdx |-> NoEnv]]
    /\ faults = {}
    /\ budget = MaxTasks
    /\ async_session = FALSE
    /\ cache = [k \in Keys |-> NoEntry]
    /\ now = 0
    /\ call = NoCall
    /\ latest = [k \in Keys |-> NoLatest]
    /\ resp = NoResp
    /\ gamma = NoGamma

IdNext ==
    \E j \in JobIds :
        \/ \E parsed \in SUBSET DataRows : UploadCreateJob(j, parsed)
        \/ \E n \in RejectedLengths : UploadReject(j, n)
        \/ UploadInitRow(j)
        \/ UploadDispatch(j)
        \/ SingleCreateJob(j)
        \/ SingleDispatch(j)

\* The request handlers of POST /upload and POST /single against a store that
\* an earlier job has filled.
IdSpec == IdInit /\ [][IdNext]_vars

(* ------------------ the deck creation of one row task ----------------- *)
\* What POST /generate answers: an error status (raise_for_status raises), or
\* gen_data with or without an id, a url and a status; a gen_data without
\* status reads as "completed".
SubmitAnswers ==
    [fail : HttpFailures, status : {""}, id : {""}, url : {""}]
    \cup [fail : {""}, status : {"completed", "processing"},
          id : {"", "g1"}, url : {"", "https://gamma.app/docs/g1"}]

\* What GET /gammas/{id} answers: another status code than 200, or data with
\* a status and with or without an id and a url.
PollAnswers ==
    [code : {200}, status : {"processing", "completed", "failed"},
     id : {"", "g1"}, url : {"", "https://gamma.app/docs/g1"}]
    \cup [code : {503}, status : {""}, id : {""}, url : {""}]

\* create_presentation returned a GammaResult: the task stores COMPLETE and
\* the url.
Returned(g, url) ==
    [g EXCEPT !.pc = "complete", !.status = COMPLETE, !.deck_url = url]

\* Raised as it would be under @retry(stop=stop_after_attempt(3)).
RaisedThreeAttempts(g, exc) ==
    IF g.attempt < stop_after_attempt + 1
    THEN [g EXCEPT !.pc = "retry", !.exc = exc]
    ELSE [g EXCEPT !.pc = "failed", !.exc = exc, !.status = FAILED,
                   !.error = ErrorMsg(TRUE, <<exc>>)]

\* An attempt of create_presentation raised: tenacity starts the next attempt
\* while attempts are left; after the last one RetryError reaches the task,
\* which stores FAILED and the message.
Raised(g, exc) ==
    IF g.attempt < stop_after_attempt
    THEN [g EXCEPT !.pc = "retry", !.exc = exc]
    ELSE [g EXCEPT !.pc = "failed", !.exc = exc, !.status = FAILED,
                   !.error = ErrorMsg(TRUE, <<exc>>)]

\* One attempt of create_presentation up to the polling: the task has stored
\* CREATING_DECK, the generation is submitted, and the answer is returned at
\* once when it is complete or has no id.
GammaSubmit(ans) ==
    /\ gamma.pc \in {"idle", "retry"}
    /\ LET g == [gamma EXCEPT !.attempt = @ + 1, !.elapsed = 0, !.polls = 0,
                              !.processing = 0, !.gamma_id = ans.id,
                              !.status = CREATING_DECK, !.submits = @ + 1]
       IN gamma' = IF ans.fail # "" THEN Raised(g, ans.fail)
                   ELSE IF ans.status \in {"completed", "done"}
                        THEN Returned(g, ParseGammaUrl(ans))
                   ELSE IF ans.id # "" THEN [g EXCEPT !.pc = "polling"]
                   ELSE Returned(g, ParseGammaUrl(ans))
    /\ UNCHANGED <<pipeVars, cacheVars, resp>>

\* GammaPoll as it would be if a poll that is not answered with 200 were
\* repeated without counting its interval.
GammaPollSkipsFailedGet(ans) ==
    /\ gamma.pc = "polling"
    /\ gamma.elapsed < max_wait_seconds
    /\ LET g == [gamma EXCEPT !.elapsed = @ + poll_interval, !.polls = @ + 1]
           on == [g EXCEPT !.processing = @ + 1]
       IN gamma' = IF ans.code # 200 THEN [gamma EXCEPT !.polls = @ + 1]
                   ELSE IF ans.status \in {"completed", "done", "published"}
                   THEN Returned(g, ParseGammaUrl(ans))
                   ELSE IF ans.status \in {"failed", "error"}
                        THEN Raised(g, "provider_failed")
                   ELSE IF on.elapsed < max_wait_seconds THEN on
                   ELSE Raised(on, "timeout")
    /\ UNCHANGED <<pipeVars, cacheVars, resp>>

\* One turn of the loop of _poll_generation: sleep poll_interval, then GET.
\* A completed generation is returned, a failed one raises RuntimeError, and
\* otherwise the loop goes on until elapsed reaches max_wait_seconds, where
\* TimeoutError is raised.
GammaPoll(ans) ==
    /\ gamma.pc = "polling"
    /\ gamma.elapsed < max_wait_seconds
    /\ LET g == [gamma EXCEPT !.elapsed = @ + poll_interval, !.polls = @ + 1]
           on == IF ans.code = 200 THEN [g EXCEPT !.processing = @ + 1] ELSE g
       IN gamma' = IF ans.code = 200
                      /\ ans.status \in {"completed", "done", "published"}
                   THEN Returned(g, ParseGammaUrl(ans))
                   ELSE IF ans.code = 200 /\ ans.status \in {"failed", "error"}
                        THEN Raised(g, "provider_failed")
                   ELSE IF on.elapsed < max_wait_seconds THEN on
                   ELSE Raised(on, "timeout")
    /\ UNCHANGED <<pipeVars, cacheVars, resp>>

\* The except branch of the row task after create_presentation (or, in a
\* later run, an earlier stage) raised: while retries are left self.retry
\* runs the task again, which submits a new generation when it reaches
\* create_presentation; a run that fails before that stage submits nothing.
GammaRowRetry(reached) ==
    /\ gamma.pc = "failed"
    /\ ShouldRetry(gamma)
    /\ gamma' = IF reached
                THEN [gamma EXCEPT !.pc = "idle", !.retries = @ + 1,
                                   !.attempt = 0, !.status = CREATING_DECK]
                ELSE [gamma EXCEPT !.retries = @ + 1, !.attempt = 0]
    /\ UNCHANGED <<pipeVars, cacheVars, resp>>

\* A row task is about to create its deck.
GammaInit ==
    /\ gamma = NoGamma
    /\ resp = NoResp
    /\ job = [j \in JobIds |-> NoJob]
    /\ row = [j \in JobIds |-> [r \in RowIdx |-> NoRow]]
    /\ upl = [j \in JobIds |-> "none"]
    /\ prospects = [j \in JobIds |-> {}]
    /\ task = [j \in JobIds |-> [r \in RowIdx |-> NoTask]]
    /\ chordCount = [j \in JobIds |-> 0]
    /\ fin = [j \in JobIds |-> [state |-> "none", calls |-> 0]]
    /\ env = [j \in JobIds |-> [r \in RowIdx |-> NoEnv]]
    /\ faults = {}
    /\ budget = 0
    /\ async_session = FALSE
    /\ cache = [k \in Keys |-> NoEntry]
    /\ now = 0
    /\ call = NoCall
    /\ latest = [k \in Keys |-> NoLatest]

GammaNext ==
    \/ \E ans \in SubmitAnswers : GammaSubmit(ans)
    \/ \E ans \in PollAnswers : GammaPoll(ans)
    \/ \E reached \in BOOLEAN : GammaRowRetry(reached)

\* The Produce stage of one row task over all runs of the task, from
\* CREATING_DECK to COMPLETE or FAILED.
GammaSpec == GammaInit /\ [][GammaNext]_vars

(* ------------------------------ properties ---------------------------- *)
Terminal(st) == st \in {COMPLETE, FAILED}

JobDone(j) == job[j].exists /\ job[j].status \in {"complete", "failed"}

Rejected(j) == upl[j] \in {"rejected_empty", "rejected_too_many"}

IsBatch(j) == upl[j] \in {"rows", "done"} /\ ~IsSingle(j)

AllReturned(j) ==
    /\ upl[j] = "done"
    /\ \A r \in prospects[j] : task[j][r].pc = "returned"

\* C1: in every reachable state of every job, completed + failed <= total_rows.
C1_CountersWithinTotal ==
    \A j \in JobIds :
        job[j].exists => job[j].completed + job[j].failed <= job[j].total_rows

\* C2: over the life of its job, the counters are incremented exactly once on
\* each row's account: never twice, never both counters, and once when the
\* row's task has returned.
C2_OneIncrementPerRow ==
    \A j \in JobIds : \A r \in RowIdx :
        /\ env[j][r].incC + env[j][r].incF <= 1
        /\ task[j][r].pc = "returned" => env[j][r].incC + env[j][r].incF = 1

\* C3: whenever a job's status is complete or failed, completed + failed
\* equals total_rows.
C3_CountersEqualTotalWhenDone ==
    \A j \in JobIds :
        JobDone(j) => job[j].completed + job[j].failed = job[j].total_rows

\* The order of the row statuses on the success path.
Rank(st) ==
    CASE st = QUEUED -> 0
      [] st = RESEARCHING -> 1
      [] st = GENERATING_CONTENT -> 2
      [] st = CREATING_DECK -> 3
      [] st = COMPLETE -> 4
      [] OTHER -> 5

LegalRowStep(old, new) ==
    /\ ~Terminal(old)
    /\ new = FAILED \/ Rank(new) = Rank(old) + 1

\* C4: every change of a row's stored status goes one step forward along
\* Queued, Researching, GeneratingContent, CreatingArtifact, Complete or to
\* Failed, and a stored Complete or Failed is never changed again.
C4_RowStatusSequence ==
    [][\A j \in JobIds : \A r \in RowIdx :
          (row[j][r].exists /\ row'[j][r].status # row[j][r].status)
              => LegalRowStep(row[j][r].status, row'[j][r].status)]_vars

Scheduled(j) == IF fin[j].state = "queued" THEN 1 ELSE 0

C6_JobStatusFinal ==
    [][\A j \in JobIds : JobDone(j) => job'[j].status = job[j].status]_vars

C8_FinalizeFailureFailsJob ==
    \A j \in JobIds : fin[j].state = "raised" => job[j].status = "failed"

RowsWith(j, h) == {r \in prospects[j] : env[j][r].hist = h}

\* C9: a finalized batch job in which some rows' Research always failed
\* Permanently and every adapter of the other rows succeeded has
\* completed = N - k, failed = k and a non-empty error on each failing row.
C9_PartialFailureScenario ==
    \A j \in JobIds :
        (/\ IsBatch(j) /\ fin[j].state = "done"
         /\ RowsWith(j, "allok") # {} /\ RowsWith(j, "resperm") # {}
         /\ prospects[j] = RowsWith(j, "allok") \cup RowsWith(j, "resperm"))
        => /\ job[j].status = "complete"
           /\ job[j].completed = Cardinality(RowsWith(j, "allok"))
           /\ job[j].failed = Cardinality(RowsWith(j, "resperm"))
           /\ \A r \in RowsWith(j, "resperm") : row[j][r].error # ""

\* C10: after an adapter call of a row failed with a Permanent error no
\* adapter is called again for that row, and the row is Failed at once.
C10_PermanentNeverRetried ==
    \A j \in JobIds : \A r \in RowIdx :
        env[j][r].permSeen =>
            /\ ~env[j][r].permRetried
            /\ row[j][r].status = FAILED
C12_StatusShowsEveryRow ==
    \A j \in JobIds :
        job[j].exists =>
            LET out == get_job_status(job, row, j)
            IN /\ Cardinality(out.rows) = out.total_rows
               /\ {e.row_index : e \in out.rows} = prospects[j]

\* C13: finalize_job is never scheduled or invoked for a single-client job,
\* and whenever such a job's status is complete (failed), the stored status of
\* row 0 is complete (failed).
C13_SingleJobFollowsRow ==
    \A j \in JobIds :
        IsSingle(j) =>
            /\ fin[j].state = "none" /\ fin[j].calls = 0
            /\ job[j].status = "complete" => row[j][0].status = COMPLETE
            /\ job[j].status = "failed" => row[j][0].status = FAILED

\* C14: once a job's status is complete or failed, the output of a status
\* query for it (GET /status and GET /single/status) never changes again.
C14_StatusOutputStable ==
    [][\A j \in JobIds :
          JobDone(j) =>
              /\ get_job_status(job', row', j) = get_job_status(job, row, j)
              /\ get_single_status(job', row', j) = get_single_status(job, row, j)]_vars

\* C15: once every row of a batch job is complete or failed, the job's status
\* eventually reads complete or failed.
C15_BatchJobEventuallyDone ==
    \A j \in JobIds :
        (/\ IsBatch(j) /\ upl[j] = "done"
         /\ \A r \in prospects[j] : Terminal(row[j][r].status))
        ~> JobDone(j)

(* ------------------------ research cache properties ------------------- *)
\* Hours between the creation of the row the latest lookup found and the lookup.
FoundAge == call.at - call.found.created_at

\* The latest execution looked a key up, without a database error, and the
\* table held a row for it.
LookupFoundRow == call.n > 0 /\ call.lookedUp /\ call.found.present

\* C16: with a session factory and a TTL of 30 days, a lookup 29 days after
\* the row was written returns the stored research unchanged and queries no
\* provider; a lookup 31 days after it queries the provider.
C16_TtlDayBoundaries ==
    LookupFoundRow =>
        /\ FoundAge = (RESEARCH_CACHE_TTL_DAYS - 1) * 24 =>
               /\ call.hit /\ ~call.queried /\ call.returned
               /\ model_dump(call.data) = call.found.research_data
        /\ FoundAge = (RESEARCH_CACHE_TTL_DAYS + 1) * 24 =>
               ~call.hit /\ call.queried

\* A lookup 29 days after the row was written was served from the row.
C16_Witness ==
    /\ LookupFoundRow /\ FoundAge = (RESEARCH_CACHE_TTL_DAYS - 1) * 24
    /\ call.hit /\ model_dump(call.data) = call.found.research_data

\* C17: a row older than the TTL of 30 days, by however little, is never
\* returned: the lookup counts as a miss and the provider is queried.
C17_OlderThanTtlIsAbsent ==
    (LookupFoundRow /\ FoundAge > RESEARCH_CACHE_TTL_DAYS * 24) =>
        ~call.hit /\ call.queried

\* C18: when research was computed after a lookup that found only a stale
\* row, the next lookup of the key within the TTL returns that research and
\* queries no provider.
C18_StaleRowReplaced ==
    (/\ call.n > 0 /\ call.lookedUp
     /\ call.before.present /\ call.before.overStale
     /\ call.at - call.before.at <= RESEARCH_CACHE_TTL_DAYS * 24)
    => /\ call.hit /\ ~call.queried
       /\ call.data = call.before.research

\* C19: when the insert into research_cache fails, research_company still
\* returns the research it has just computed and the row is moved on to
\* generating_content.
C19_SaveFailureIsSwallowed ==
    (call.n > 0 /\ call.skipped) =>
        /\ call.returned
        /\ call.data.company_name = call.name
        /\ call.data.raw_research = call.at
        /\ call.status = GENERATING_CONTENT

\* The insert failed for a key that had no row (a database error) and the row
\* task went on.
C19_Witness ==
    /\ call.n > 0 /\ call.skipped /\ ~call.found.present
    /\ call.status = GENERATING_CONTENT

\* Two characters that are the same letter, whatever their case.
SameLetter(c1, c2) == c1 = c2 \/ {c1, c2} = {"a", "A"}

\* Everything of the name outside positions i..j is blank.
Padded(name, i, j) == \A x \in 1..Len(name) : (x < i \/ x > j) => name[x] = " "

\* The two names differ at most in letter case and in blanks at their ends.
SameIdentity(a, b) ==
    \E i1 \in 1..(Len(a) + 1), i2 \in 1..(Len(b) + 1) :
        \E n \in 0..Len(a) :
            /\ i1 + n - 1 <= Len(a) /\ i2 + n - 1 <= Len(b)
            /\ Padded(a, i1, i1 + n - 1) /\ Padded(b, i2, i2 + n - 1)
            /\ \A x \in 0..(n - 1) : SameLetter(a[i1 + x], b[i2 + x])

\* C20: when the table holds the research of a company, a lookup within the
\* TTL under a name that differs from that company's only in letter case or
\* in blanks at the ends is served from that row and queries no provider.
C20_CaseAndPaddingShareEntry ==
    \A k \in Keys :
        (/\ call.n > 0 /\ call.lookedUp
         /\ cache[k].present
         /\ cache[k].research_data.company_name # call.name
         /\ SameIdentity(cache[k].research_data.company_name, call.name)
         /\ cache[k].created_at <= call.at
         /\ call.at - cache[k].created_at <= RESEARCH_CACHE_TTL_DAYS * 24)
        => /\ call.hit /\ ~call.queried
           /\ model_dump(call.data) = cache[k].research_data

\* A lookup was served from the row that the research of the same company,
\* written in another case and with other blanks, had stored in this run.
C20_Witness ==
    /\ call.n = MaxCalls /\ call.hit
    /\ call.found.created_at > 0
    /\ call.found.research_data.company_name # call.name
    /\ Lower(call.found.research_data.company_name) # Lower(call.name)
    /\ Strip(call.found.research_data.company_name) # Strip(call.name)

(* ----------------------- failures and their limits -------------------- *)
\* The message _update_row_status stores when create_presentation ended with
\* a failure of the kind, on every attempt.
RecordedError(kind) == ErrorMsg(TRUE, <<kind, kind>>)

\* C21: when the last stage call of a row task that has returned was a deck
\* creation whose polling ran out of time, the row is failed and its error
\* names the time-out; the error stored when the provider reports a failed
\* generation, or answers with an error status, is another one.
C21_TimeoutErrorIsDistinct ==
    \A j \in JobIds : \A r \in RowIdx :
        (/\ task[j][r].pc = "returned"
         /\ env[j][r].stage = "produce" /\ env[j][r].raised = "timeout"
         /\ task[j][r].ret.status = FAILED)
        => /\ row[j][r].status = FAILED
           /\ row[j][r].error = "RetryError: RetryError[TimeoutError]"
           /\ \A kind \in AllFailures \ {"timeout"} :
                  row[j][r].error # RecordedError(kind)

\* A row task returned failed after its deck creation timed out in each of
\* its runs.
C21_Witness ==
    \E j \in JobIds : \E r \in prospects[j] :
        /\ task[j][r].pc = "returned" /\ task[j][r].retries = max_retries
        /\ env[j][r].stage = "produce" /\ env[j][r].raised = "timeout"
        /\ row[j][r].status = FAILED

\* C23: a Transient failure of a Research, Synthesize or Produce call reaches
\* the row task only after the call was attempted more than once, and at most
\* stop_after_attempt times.
C23_TransientRetriedByWrapper ==
    \A j \in JobIds : \A r \in RowIdx :
        env[j][r].raised = "transient" =>
            /\ env[j][r].tries > 1
            /\ env[j][r].tries <= stop_after_attempt

\* C24: a row task all of whose stage calls succeeded ends with the row
\* complete whatever happens to the other rows, and finalize_job runs for
\* every batch job whose tasks were published, failed rows or not.
C24_RowFailureIsolated ==
    /\ [](\A j \in JobIds : \A r \in prospects[j] :
            (/\ IsBatch(j) /\ task[j][r].pc = "returned"
             /\ env[j][r].hist = "allok")
            => row[j][r].status = COMPLETE /\ task[j][r].ret.status = COMPLETE)
    /\ \A j \in JobIds : (IsBatch(j) /\ upl[j] = "done") ~> (fin[j].calls = 1)

\* finalize_job ran for a two-row batch job of which one row ended failed and
\* the other, whose stage calls all succeeded, complete.
C24_Witness ==
    \E j \in JobIds : \E r1, r2 \in prospects[j] :
        /\ IsBatch(j) /\ fin[j].calls = 1
        /\ task[j][r1].ret.status = FAILED /\ row[j][r1].status = FAILED
        /\ env[j][r2].hist = "allok" /\ row[j][r2].status = COMPLETE

\* C25: a row's error is non-empty only while its stored status is failed.
C25_ErrorOnlyWhenFailed ==
    \A j \in JobIds : \A r \in RowIdx :
        row[j][r].error # "" => row[j][r].status = FAILED

\* write_results wrote the output workbook of the job.
OutputOnDisk(j) == fin[j].state = "done"

\* C26: a job's output_file is non-empty only once finalize_job has written
\* the results; until then it is empty and GET /download answers that the
\* output is not ready.
C26_OutputFileOnlyAfterFinalize ==
    \A j \in JobIds :
        job[j].exists =>
            /\ job[j].output_file # "" => fin[j].state = "done"
            /\ fin[j].state # "done" =>
                   /\ job[j].output_file = ""
                   /\ download_output(job, j, OutputOnDisk(j)).code = 400

\* finalize_job wrote the results of a job and GET /download serves the file.
C26_Witness ==
    \E j \in JobIds :
        /\ fin[j].state = "done" /\ job[j].output_file # ""
        /\ download_output(job, j, OutputOnDisk(j)).code = 200

\* C29: finalize_job is published only when every row task of the job has
\* returned, and from then on no row of the job is started again and neither
\* a row hash nor a counter of the job is written.
C29_FinalizeAfterAllRows ==
    [][\A j \in JobIds :
          fin[j].state # "none" =>
              /\ AllReturned(j)
              /\ row'[j] = row[j] /\ task'[j] = task[j]
              /\ job'[j].completed = job[j].completed
              /\ job'[j].failed = job[j].failed]_vars

\* finalize_job is published for a two-row job one of whose rows used up its
\* retries and the other was retried once.
C29_Witness ==
    \E j \in JobIds : \E r1, r2 \in prospects[j] :
        /\ fin[j].state = "queued"
        /\ task[j][r1].retries = max_retries /\ task[j][r2].retries = 1

\* C30: the pipeline of a row is run at most 2 times, and a row whose second
\* run failed stays failed and is not run again.
C30_AtMostTwoRuns ==
    \A j \in JobIds : \A r \in RowIdx :
        /\ env[j][r].runs <= 2
        /\ (env[j][r].runs = 2 /\ row[j][r].status = FAILED)
               => task[j][r].pc # "queued"

(* ------------------------- read routes properties --------------------- *)
\* num / den (den > 0) rounded to the nearest integer, a tie to the even one:
\* round() of the exact quotient.
RoundExact(num, den) ==
    LET q == num \div den
        rem == num % den
    IN IF 2 * rem > den THEN q + 1
       ELSE IF 2 * rem < den THEN q
       ELSE IF q % 2 = 0 THEN q ELSE q + 1

\* C27: the progress_percent that GET /status returns is
\* round(100 * (completed + failed) / total_rows) when total_rows > 0 and 0
\* when total_rows is 0, whatever the stored counters.
C27_ProgressPercentFormula ==
    (resp.op = "status" /\ resp.out.code = 200) =>
        resp.out.progress_percent =
            IF resp.out.total_rows > 0
            THEN RoundExact(100 * (resp.out.completed + resp.out.failed),
                            resp.out.total_rows)
            ELSE 0

\* C28: a status or download query for a job id without a job hash is
\* answered 404 and leaves every job hash and row hash as it was.
C28_UnknownJobNotFound ==
    [][\A j \in JobIds :
          (resp'.n = resp.n + 1 /\ resp'.job_id = j /\ ~job[j].exists)
              => /\ resp'.out.code = 404
                 /\ job' = job /\ row' = row]_vars

\* The latest query, for a job id without a job hash, was answered 404 and
\* nothing is stored under that id.
C28_Witness ==
    /\ resp.n > 0 /\ resp.out.code = 404
    /\ resp.op \in {"status", "single_status", "download"}
    /\ job[resp.job_id] = NoJob
    /\ \A r \in RowIdx : row[resp.job_id][r] = NoRow

(* ------------------------ deck creation properties -------------------- *)
\* C22: when the generation was reported "processing" at each of k polls and
\* "completed" at the next one, the row is stored complete with a non-empty
\* deck_url and exactly k poll intervals have been waited.
C22_CompleteAfterKIntervals ==
    (/\ gamma.pc = "complete" /\ gamma.processing >= 1
     /\ gamma.polls = gamma.processing + 1)
    => /\ gamma.status = COMPLETE
       /\ gamma.deck_url # ""
       /\ gamma.elapsed = gamma.processing * poll_interval

\* C31: whenever a task is at the call of a stage adapter, the row hash
\* already holds that stage's status: RESEARCHING at research_company,
\* GENERATING_CONTENT at generate_pitch, CREATING_DECK at create_presentation.
C31_StatusWrittenBeforeAdapter ==
    \A j \in JobIds : \A r \in RowIdx :
        /\ task[j][r].pc = "research" => row[j][r].status = RESEARCHING
        /\ task[j][r].pc = "generate" => row[j][r].status = GENERATING_CONTENT
        /\ task[j][r].pc = "deck" => row[j][r].status = CREATING_DECK

\* A retried run stands at create_presentation with CREATING_DECK stored.
C31_Witness ==
    \E j \in JobIds : \E r \in prospects[j] :
        /\ task[j][r].pc = "deck"
        /\ task[j][r].retries >= 1
        /\ row[j][r].status = CREATING_DECK

\* C32: once a row task of a job is published, the job hash exists with
\* total_rows = N and every one of the N row hashes exists; and as long as no
\* row task has started, the job is "processing" with both counters 0 and
\* every row is QUEUED.
C32_RecordsWrittenBeforeDispatch ==
    \A j \in JobIds :
        (\E r \in RowIdx : task[j][r].pc # "none")
        => /\ job[j].exists
           /\ job[j].total_rows = Cardinality(prospects[j])
           /\ \A r \in prospects[j] : row[j][r].exists
           /\ (\A r \in prospects[j] : env[j][r].runs = 0)
              => /\ job[j].status = "processing"
                 /\ job[j].completed = 0
                 /\ job[j].failed = 0
                 /\ \A r \in prospects[j] : row[j][r].status = QUEUED

\* The chord of a two-row upload is published and no row task has started.
C32_Witness ==
    \E j \in JobIds :
        /\ Cardinality(prospects[j]) = 2
        /\ \A r \in prospects[j] :
              /\ task[j][r].pc = "queued"
              /\ env[j][r].runs = 0
              /\ row[j][r].status = QUEUED
        /\ job[j].total_rows = 2

\* The number of hincrby calls the row tasks of job j have made on the
\* "completed" (resp. "failed") field, summed over rows 0..n.
RECURSIVE HincrbyCalls(_, _, _)
HincrbyCalls(j, field, n) ==
    (IF field = "completed" THEN env[j][n].incC ELSE env[j][n].incF)
    + (IF n = 0 THEN 0 ELSE HincrbyCalls(j, field, n - 1))

\* C33: in a job of several rows, whose tasks run concurrently, the stored
\* completed (resp. failed) counter equals the number of increments the row
\* tasks have performed on it: none is lost.
C33_NoIncrementLost ==
    \A j \in JobIds :
        (job[j].exists /\ Cardinality(prospects[j]) >= 2)
        => /\ job[j].completed = HincrbyCalls(j, "completed", MaxExcelRow)
           /\ job[j].failed = HincrbyCalls(j, "failed", MaxExcelRow)

\* Two rows of one job stand at their hincrby at the same time, after an
\* earlier increment of the same job.
C33_Witness ==
    \E j \in JobIds : \E r1, r2 \in prospects[j] :
        /\ r1 # r2
        /\ task[j][r1].pc = "incr_failed"
        /\ task[j][r2].pc \in {"incr_failed", "incr_completed"}
        /\ job[j].failed >= 1
        /\ job[j].failed = HincrbyCalls(j, "failed", MaxExcelRow)

\* C34: a step of the task of row r of job j leaves the hash of every other
\* row, of this and of every other job, and the hash of every other job as
\* they were.
C34_RowTaskWritesOwnRecords ==
    [][\A j \in JobIds : \A r \in RowIdx :
          (task[j][r].pc # "none" /\ task'[j][r] # task[j][r])
          => /\ \A j2 \in JobIds : \A r2 \in RowIdx :
                   (j2 # j \/ r2 # r) => row'[j2][r2] = row[j2][r2]
             /\ \A j2 \in JobIds : j2 # j => job'[j2] = job[j2]]_vars

\* One row of a job has failed while another row of the same job is still
\* at create_presentation.
C34_Witness ==
    \E j \in JobIds : \E r1, r2 \in prospects[j] :
        /\ r1 # r2
        /\ row[j][r1].status = FAILED
        /\ task[j][r1].pc = "returned"
        /\ row[j][r2].status = CREATING_DECK
        /\ task[j][r2].pc = "deck"

\* C39: every row whose stored status is COMPLETE has a non-empty deck_url,
\* whatever the answers of the provider contained.
C39_CompleteRowHasDeckUrl ==
    \A j \in JobIds : \A r \in RowIdx :
        row[j][r].status = COMPLETE => row[j][r].deck_url # ""

\* C40: once finalize_job is published, the results it is handed hold one
\* RowResult per row of the job, and the status, deck_url and error of each
\* equal those fields of the row's hash.
C40_FinalizeResultsMatchStore ==
    \A j \in JobIds :
        fin[j].state # "none"
        => \A r \in prospects[j] :
              /\ task[j][r].ret # NoResult
              /\ task[j][r].ret.status = row[j][r].status
              /\ task[j][r].ret.deck_url = row[j][r].deck_url
              /\ task[j][r].ret.error = row[j][r].error

\* C36: when every adapter call returns or raises and the workers keep
\* consuming the queue, every row whose hash was written is eventually, and
\* from then on for ever, COMPLETE or FAILED with its task returned: no row
\* stays QUEUED, RESEARCHING, GENERATING_CONTENT or CREATING_DECK, and no
\* further run is made.
C36_EveryRowEnds ==
    <>[](\A j \in JobIds : \A r \in RowIdx :
            row[j][r].exists
            => task[j][r].pc = "returned" /\ Terminal(row[j][r].status))

\* A row has used up its retries and returned FAILED while a row of the same
\* job returned COMPLETE.
C36_Witness ==
    \E j \in JobIds : \E r1, r2 \in prospects[j] :
        /\ task[j][r1].pc = "returned" /\ task[j][r1].retries = max_retries
        /\ row[j][r1].status = FAILED
        /\ task[j][r2].pc = "returned" /\ row[j][r2].status = COMPLETE

\* C37: one loop of _poll_generation makes at most max_wait_seconds /
\* poll_interval = 60 polls and waits one interval before each; a poll that
\* is answered with another code than 200 or with a status that is not final
\* leaves the loop running and counts its interval, and TimeoutError is
\* raised right after the 60th poll.
C37_PollBudget ==
    /\ gamma.elapsed = gamma.polls * poll_interval
    /\ gamma.polls <= max_wait_seconds \div poll_interval
    /\ gamma.pc = "polling" => gamma.polls < max_wait_seconds \div poll_interval
    /\ (gamma.pc \in {"retry", "failed"} /\ gamma.exc = "timeout")
       => gamma.polls = max_wait_seconds \div poll_interval

\* A loop timed out after polls some of which were answered "processing" and
\* some with another code than 200.
C37_Witness ==
    /\ gamma.pc = "retry" /\ gamma.exc = "timeout"
    /\ gamma.polls = max_wait_seconds \div poll_interval
    /\ gamma.elapsed = max_wait_seconds
    /\ gamma.processing >= 1
    /\ gamma.processing < gamma.polls

\* C38: over all attempts of create_presentation and all runs of the row
\* task, POST /generate is made at most stop_after_attempt * (max_retries + 1)
\* = 6 times for one row, and the attempt that follows a poll timeout or a
\* failure reported by the provider submits a new generation: it does not
\* poll the earlier one again.
C38_SubmitsBounded ==
    [][/\ gamma'.submits <= stop_after_attempt * (max_retries + 1)
       /\ (gamma.pc = "retry" /\ gamma.exc \in PollFailures)
          => /\ gamma'.submits = gamma.submits + 1
             /\ gamma'.polls = 0]_vars

\* The sixth submission of a row was made after a poll timeout and the last
\* run of the task failed.
C38_Witness ==
    /\ gamma.submits = stop_after_attempt * (max_retries + 1)
    /\ gamma.retries = max_retries
    /\ gamma.pc = "failed"
    /\ gamma.exc = "timeout"

\* C35: the id under which upload_excel or create_single_prospect creates a
\* job is the id of no job in the store, so that creating a job overwrites
\* no record of an existing job.
C35_NewJobIdUnused ==
    [][\A j \in JobIds :
          (upl[j] = "none" /\ upl'[j] \in {"rows", "single"})
          => ~job[j].exists]_vars

====
